---- MODULE Spec2Model ----
(***************************************************************************)
(* Air quality monitoring backend: the AQI sub-index functions and their   *)
(* aggregation (backend/utils/aqiCalculator.js and the copies kept in the  *)
(* prediction controller), and the prediction pipeline makePrediction with *)
(* its fallback forecaster (prediction controller).                        *)
(*                                                                         *)
(* Numbers.  A JavaScript number is modelled as an exact rational          *)
(* [n |-> numerator, d |-> denominator] with d > 0, and NaN as the record  *)
(* with d = 0.  Decimal literals of the source (12.1, 35.4, ...) are       *)
(* written in tenths (121, 354, ...).                                      *)
(***************************************************************************)
EXTENDS Integers, Sequences, FiniteSets, TLC

VARIABLES ix, ag, pc, caller, input, processedData, weatherData, hfKey,
          response, jitterSeed, clockHour, normInput, payload, fallbackInput,
          producedBy, outcome, result, resSource, rt,
          subscriptions, latestData, clock, checks, unsubscribed,
          fb, heap, inv, store, records, reqs

vars == <<ix, ag, pc, caller, input, processedData, weatherData, hfKey,
          response, jitterSeed, clockHour, normInput, payload, fallbackInput,
          producedBy, outcome, result, resSource, rt,
          subscriptions, latestData, clock, checks, unsubscribed,
          fb, heap, inv, store, records, reqs>>

\* concurrent invocations of makePrediction: the arrays they were handed,
\* by identity, and the local variables of each invocation
concurrentVars == <<heap, inv>>

\* the alert service: the EmailSubscription collection, the latest stored
\* reading, the time in hours, the alert checks under way, the emails whose
\* last request was a successful unsubscribe
alertVars == <<subscriptions, latestData, clock, checks, unsubscribed>>

\* the variables of the specifications that apply one function or run one
\* service on its own
\* the storing of one reading, and the subscribe and unsubscribe requests
\* with the EmailSubscription collection as a set of documents
storageVars == <<store, records, reqs>>

sideVars == <<rt, alertVars, fb, concurrentVars, storageVars>>

pipelineVars == <<pc, caller, input, processedData, weatherData, hfKey,
          response, jitterSeed, clockHour, normInput, payload, fallbackInput,
          producedBy, outcome, result, resSource>>

(***************************************************************************)
(* Bounds of the model.                                                    *)
(***************************************************************************)
\* tenths of a unit explored above the last tabled breakpoint of a pollutant
Beyond == 60
\* longest historical series handed to makePrediction
MaxLen == 26
\* largest number of vectors in a predictor response
MaxPred == 25

(***************************************************************************)
(* JavaScript numbers.                                                     *)
(***************************************************************************)
NaN == [n |-> 0, d |-> 0]

R(i) == [n |-> i, d |-> 1]

IsNaN(a) == a.d = 0

Abs(i) == IF i < 0 THEN -i ELSE i

\* Euclid's algorithm on naturals
GCD(a, b) ==
    LET gcd[x \in Nat, y \in Nat] == IF y = 0 THEN x ELSE gcd[y, x % y]
    IN  gcd[a, b]

\* the rational n/d (d # 0) in lowest terms with a positive denominator
Frac(n, d) ==
    LET s == IF d < 0 THEN -1 ELSE 1
        g == GCD(Abs(n), Abs(d))
    IN  [n |-> (s * n) \div g, d |-> (s * d) \div g]

\* a decimal literal of the source given in tenths: Dec(121) is 12.1
Dec(t) == Frac(t, 10)

RAdd(a, b) == IF IsNaN(a) \/ IsNaN(b) THEN NaN
              ELSE Frac(a.n * b.d + b.n * a.d, a.d * b.d)

RSub(a, b) == IF IsNaN(a) \/ IsNaN(b) THEN NaN
              ELSE Frac(a.n * b.d - b.n * a.d, a.d * b.d)

RMul(a, b) == IF IsNaN(a) \/ IsNaN(b) THEN NaN
              ELSE Frac(a.n * b.n, a.d * b.d)

\* a / b; 0/0 is NaN, and x/0 (an infinity) does not occur in the model
RDiv(a, b) == IF IsNaN(a) \/ IsNaN(b) \/ b.n = 0 THEN NaN
              ELSE Frac(a.n * b.d, a.d * b.n)

\* every comparison with NaN is false
RLe(a, b) == ~IsNaN(a) /\ ~IsNaN(b) /\ a.n * b.d <= b.n * a.d

RLt(a, b) == ~IsNaN(a) /\ ~IsNaN(b) /\ a.n * b.d < b.n * a.d

REq(a, b) == ~IsNaN(a) /\ ~IsNaN(b) /\ a.n * b.d = b.n * a.d

\* Math.max and Math.min return NaN when an argument is NaN
MathMax(a, b) == IF IsNaN(a) \/ IsNaN(b) THEN NaN ELSE IF RLe(a, b) THEN b ELSE a

MathMin(a, b) == IF IsNaN(a) \/ IsNaN(b) THEN NaN ELSE IF RLe(a, b) THEN a ELSE b

\* Math.round: the integer nearest to a, halves rounded up; NaN stays NaN
MathRound(a) == IF IsNaN(a) THEN NaN ELSE R((2 * a.n + a.d) \div (2 * a.d))

IsInteger(a) == a.d = 1

\* an array with every element computed: the same sequence as xs
array(xs) == SubSeq(xs, 1, Len(xs))

(***************************************************************************)
(* backend/utils/aqiCalculator.js: the sub-index functions of the          *)
(* direct-reading path.  A concentration c is a number; breakpoints are    *)
(* given in tenths.                                                        *)
(***************************************************************************)
\* mutant of linearScale: the index saturates at 500
linearScaleCapped(concentration, minConc, maxConc, minAQI, maxAQI) ==
    MathMin(R(500),
            MathRound(RAdd(RMul(RDiv(R(maxAQI - minAQI),
                                     RSub(Dec(maxConc), Dec(minConc))),
                                RSub(concentration, Dec(minConc))),
                           R(minAQI))))

linearScale(concentration, minConc, maxConc, minAQI, maxAQI) ==
    MathRound(RAdd(RMul(RDiv(R(maxAQI - minAQI), RSub(Dec(maxConc), Dec(minConc))),
                        RSub(concentration, Dec(minConc))),
                   R(minAQI)))

\* mutant of calculatePM25Index: the first comparison is strict
calculatePM25IndexStrict(pm25) ==
    IF RLt(pm25, Dec(120)) THEN linearScale(pm25, 0, 120, 0, 50)
    ELSE IF RLe(pm25, Dec(354)) THEN linearScale(pm25, 121, 354, 51, 100)
    ELSE IF RLe(pm25, Dec(554)) THEN linearScale(pm25, 355, 554, 101, 150)
    ELSE IF RLe(pm25, Dec(1504)) THEN linearScale(pm25, 555, 1504, 151, 200)
    ELSE IF RLe(pm25, Dec(2504)) THEN linearScale(pm25, 1505, 2504, 201, 300)
    ELSE IF RLe(pm25, Dec(3504)) THEN linearScale(pm25, 2505, 3504, 301, 400)
    ELSE linearScale(pm25, 3505, 5004, 401, 500)

calculatePM25Index(pm25) ==
    IF RLe(pm25, Dec(120)) THEN linearScale(pm25, 0, 120, 0, 50)
    ELSE IF RLe(pm25, Dec(354)) THEN linearScale(pm25, 121, 354, 51, 100)
    ELSE IF RLe(pm25, Dec(554)) THEN linearScale(pm25, 355, 554, 101, 150)
    ELSE IF RLe(pm25, Dec(1504)) THEN linearScale(pm25, 555, 1504, 151, 200)
    ELSE IF RLe(pm25, Dec(2504)) THEN linearScale(pm25, 1505, 2504, 201, 300)
    ELSE IF RLe(pm25, Dec(3504)) THEN linearScale(pm25, 2505, 3504, 301, 400)
    ELSE linearScale(pm25, 3505, 5004, 401, 500)

calculatePM10Index(pm10) ==
    IF RLe(pm10, Dec(540)) THEN linearScale(pm10, 0, 540, 0, 50)
    ELSE IF RLe(pm10, Dec(1540)) THEN linearScale(pm10, 550, 1540, 51, 100)
    ELSE IF RLe(pm10, Dec(2540)) THEN linearScale(pm10, 1550, 2540, 101, 150)
    ELSE IF RLe(pm10, Dec(3540)) THEN linearScale(pm10, 2550, 3540, 151, 200)
    ELSE IF RLe(pm10, Dec(4240)) THEN linearScale(pm10, 3550, 4240, 201, 300)
    ELSE IF RLe(pm10, Dec(5040)) THEN linearScale(pm10, 4250, 5040, 301, 400)
    ELSE linearScale(pm10, 5050, 6040, 401, 500)

calculateO3Index(o3) ==
    IF RLe(o3, Dec(540)) THEN linearScale(o3, 0, 540, 0, 50)
    ELSE IF RLe(o3, Dec(700)) THEN linearScale(o3, 550, 700, 51, 100)
    ELSE IF RLe(o3, Dec(850)) THEN linearScale(o3, 710, 850, 101, 150)
    ELSE IF RLe(o3, Dec(1050)) THEN linearScale(o3, 860, 1050, 151, 200)
    ELSE IF RLe(o3, Dec(2000)) THEN linearScale(o3, 1060, 2000, 201, 300)
    ELSE linearScale(o3, 2010, 5040, 301, 500)

calculateCOIndex(co) ==
    IF RLe(co, Dec(10)) THEN linearScale(co, 0, 10, 0, 50)
    ELSE IF RLe(co, Dec(20)) THEN linearScale(co, 11, 20, 51, 100)
    ELSE IF RLe(co, Dec(44)) THEN linearScale(co, 21, 44, 101, 150)
    ELSE IF RLe(co, Dec(94)) THEN linearScale(co, 45, 94, 151, 200)
    ELSE IF RLe(co, Dec(124)) THEN linearScale(co, 95, 124, 201, 300)
    ELSE linearScale(co, 125, 154, 301, 500)

calculateSO2Index(so2) ==
    IF RLe(so2, Dec(350)) THEN linearScale(so2, 0, 350, 0, 50)
    ELSE IF RLe(so2, Dec(750)) THEN linearScale(so2, 360, 750, 51, 100)
    ELSE IF RLe(so2, Dec(1850)) THEN linearScale(so2, 760, 1850, 101, 150)
    ELSE IF RLe(so2, Dec(3040)) THEN linearScale(so2, 1860, 3040, 151, 200)
    ELSE IF RLe(so2, Dec(6040)) THEN linearScale(so2, 3050, 6040, 201, 300)
    ELSE IF RLe(so2, Dec(8040)) THEN linearScale(so2, 6050, 8040, 301, 400)
    ELSE linearScale(so2, 8050, 10040, 401, 500)

calculateNO2Index(no2) ==
    IF RLe(no2, Dec(530)) THEN linearScale(no2, 0, 530, 0, 50)
    ELSE IF RLe(no2, Dec(1000)) THEN linearScale(no2, 540, 1000, 51, 100)
    ELSE IF RLe(no2, Dec(3600)) THEN linearScale(no2, 1010, 3600, 101, 150)
    ELSE IF RLe(no2, Dec(6490)) THEN linearScale(no2, 3610, 6490, 151, 200)
    ELSE IF RLe(no2, Dec(12490)) THEN linearScale(no2, 6500, 12490, 201, 300)
    ELSE IF RLe(no2, Dec(16490)) THEN linearScale(no2, 12500, 16490, 301, 400)
    ELSE linearScale(no2, 16500, 20490, 401, 500)

(***************************************************************************)
(* Prediction controller: its own copies of the sub-index functions, used  *)
(* for forecast points.                                                    *)
(***************************************************************************)
linearScaleP(concentration, minConc, maxConc, minAQI, maxAQI) ==
    MathRound(RAdd(RMul(RDiv(R(maxAQI - minAQI), RSub(Dec(maxConc), Dec(minConc))),
                        RSub(concentration, Dec(minConc))),
                   R(minAQI)))

calculatePM25IndexP(pm25) ==
    IF RLe(pm25, Dec(120)) THEN linearScaleP(pm25, 0, 120, 0, 50)
    ELSE IF RLe(pm25, Dec(354)) THEN linearScaleP(pm25, 121, 354, 51, 100)
    ELSE IF RLe(pm25, Dec(554)) THEN linearScaleP(pm25, 355, 554, 101, 150)
    ELSE IF RLe(pm25, Dec(1504)) THEN linearScaleP(pm25, 555, 1504, 151, 200)
    ELSE IF RLe(pm25, Dec(2504)) THEN linearScaleP(pm25, 1505, 2504, 201, 300)
    ELSE IF RLe(pm25, Dec(3504)) THEN linearScaleP(pm25, 2505, 3504, 301, 400)
    ELSE linearScaleP(pm25, 3505, 5004, 401, 500)

calculatePM10IndexP(pm10) ==
    IF RLe(pm10, Dec(540)) THEN linearScaleP(pm10, 0, 540, 0, 50)
    ELSE IF RLe(pm10, Dec(1540)) THEN linearScaleP(pm10, 550, 1540, 51, 100)
    ELSE IF RLe(pm10, Dec(2540)) THEN linearScaleP(pm10, 1550, 2540, 101, 150)
    ELSE IF RLe(pm10, Dec(3540)) THEN linearScaleP(pm10, 2550, 3540, 151, 200)
    ELSE IF RLe(pm10, Dec(4240)) THEN linearScaleP(pm10, 3550, 4240, 201, 300)
    ELSE IF RLe(pm10, Dec(5040)) THEN linearScaleP(pm10, 4250, 5040, 301, 400)
    ELSE linearScaleP(pm10, 5050, 6040, 401, 500)

calculateO3IndexP(o3) ==
    IF RLe(o3, Dec(540)) THEN linearScaleP(o3, 0, 540, 0, 50)
    ELSE IF RLe(o3, Dec(700)) THEN linearScaleP(o3, 550, 700, 51, 100)
    ELSE IF RLe(o3, Dec(850)) THEN linearScaleP(o3, 710, 850, 101, 150)
    ELSE IF RLe(o3, Dec(1050)) THEN linearScaleP(o3, 860, 1050, 151, 200)
    ELSE IF RLe(o3, Dec(2000)) THEN linearScaleP(o3, 1060, 2000, 201, 300)
    ELSE linearScaleP(o3, 2010, 5040, 301, 500)

calculateCOIndexP(co) ==
    IF RLe(co, Dec(44)) THEN linearScaleP(co, 0, 44, 0, 50)
    ELSE IF RLe(co, Dec(94)) THEN linearScaleP(co, 45, 94, 51, 100)
    ELSE IF RLe(co, Dec(124)) THEN linearScaleP(co, 95, 124, 101, 150)
    ELSE IF RLe(co, Dec(154)) THEN linearScaleP(co, 125, 154, 151, 200)
    ELSE IF RLe(co, Dec(304)) THEN linearScaleP(co, 155, 304, 201, 300)
    ELSE IF RLe(co, Dec(404)) THEN linearScaleP(co, 305, 404, 301, 400)
    ELSE linearScaleP(co, 405, 504, 401, 500)

calculateSO2IndexP(so2) ==
    IF RLe(so2, Dec(350)) THEN linearScaleP(so2, 0, 350, 0, 50)
    ELSE IF RLe(so2, Dec(750)) THEN linearScaleP(so2, 360, 750, 51, 100)
    ELSE IF RLe(so2, Dec(1850)) THEN linearScaleP(so2, 760, 1850, 101, 150)
    ELSE IF RLe(so2, Dec(3040)) THEN linearScaleP(so2, 1860, 3040, 151, 200)
    ELSE IF RLe(so2, Dec(6040)) THEN linearScaleP(so2, 3050, 6040, 201, 300)
    ELSE IF RLe(so2, Dec(8040)) THEN linearScaleP(so2, 6050, 8040, 301, 400)
    ELSE linearScaleP(so2, 8050, 10040, 401, 500)

calculateNO2IndexP(no2) ==
    IF RLe(no2, Dec(530)) THEN linearScaleP(no2, 0, 530, 0, 50)
    ELSE IF RLe(no2, Dec(1000)) THEN linearScaleP(no2, 540, 1000, 51, 100)
    ELSE IF RLe(no2, Dec(3600)) THEN linearScaleP(no2, 1010, 3600, 101, 150)
    ELSE IF RLe(no2, Dec(6490)) THEN linearScaleP(no2, 3610, 6490, 151, 200)
    ELSE IF RLe(no2, Dec(12490)) THEN linearScaleP(no2, 6500, 12490, 201, 300)
    ELSE IF RLe(no2, Dec(16490)) THEN linearScaleP(no2, 12500, 16490, 301, 400)
    ELSE linearScaleP(no2, 16500, 20490, 401, 500)

(***************************************************************************)
(* Aggregation.  A pollutants object is a function from the keys it        *)
(* defines to numbers; a key outside its domain reads as undefined.        *)
(***************************************************************************)
Pollutants == {"pm25", "pm10", "o3", "co", "so2", "no2"}

\* Math.max(...xs) for a non-empty array xs
MathMaxAll(xs) ==
    LET upTo[k \in 1..Len(xs)] ==
            IF k = 1 THEN xs[1] ELSE MathMax(upTo[k - 1], xs[k])
    IN  upTo[Len(xs)]

\* mutant of Measured: the guard only asks for a defined value
MeasuredAnySign(pollutants, p) == p \in DOMAIN pollutants

\* the guard of one "if" of calculateAQI: defined and greater than zero
Measured(pollutants, p) ==
    p \in DOMAIN pollutants /\ RLt(R(0), pollutants[p])

\* the index pushed for pollutant p by its "if", or nothing
pushed(pollutants, p, index) ==
    IF Measured(pollutants, p) THEN <<index>> ELSE <<>>

calculateAQI(pollutants) ==
    LET indices ==
            pushed(pollutants, "pm25", calculatePM25Index(pollutants["pm25"]))
            \o pushed(pollutants, "pm10", calculatePM10Index(pollutants["pm10"]))
            \o pushed(pollutants, "o3", calculateO3Index(pollutants["o3"]))
            \o pushed(pollutants, "co", calculateCOIndex(pollutants["co"]))
            \o pushed(pollutants, "so2", calculateSO2Index(pollutants["so2"]))
            \o pushed(pollutants, "no2", calculateNO2Index(pollutants["no2"]))
    IN  IF Len(indices) > 0 THEN MathMaxAll(indices) ELSE R(0)

\* the guard of one "if" of calculateAQIFromPollutants: not undefined, not null
Available(pollutants, p) == p \in DOMAIN pollutants

\* the index pushed for pollutant p by its "if", or nothing
pushedP(pollutants, p, index) ==
    IF Available(pollutants, p) THEN <<index>> ELSE <<>>

calculateAQIFromPollutants(pollutants) ==
    LET indices ==
            pushedP(pollutants, "pm25", calculatePM25IndexP(pollutants["pm25"]))
            \o pushedP(pollutants, "o3", calculateO3IndexP(pollutants["o3"]))
            \o pushedP(pollutants, "pm10", calculatePM10IndexP(pollutants["pm10"]))
            \o pushedP(pollutants, "co", calculateCOIndexP(pollutants["co"]))
            \o pushedP(pollutants, "so2", calculateSO2IndexP(pollutants["so2"]))
            \o pushedP(pollutants, "no2", calculateNO2IndexP(pollutants["no2"]))
    IN  IF Len(indices) > 0 THEN MathMaxAll(indices) ELSE R(0)

\* the sub-index function each path applies to pollutant p
indexFor(p, c) ==
    CASE p = "pm25" -> calculatePM25Index(c)
      [] p = "pm10" -> calculatePM10Index(c)
      [] p = "o3"   -> calculateO3Index(c)
      [] p = "co"   -> calculateCOIndex(c)
      [] p = "so2"  -> calculateSO2Index(c)
      [] p = "no2"  -> calculateNO2Index(c)

indexForP(p, c) ==
    CASE p = "pm25" -> calculatePM25IndexP(c)
      [] p = "pm10" -> calculatePM10IndexP(c)
      [] p = "o3"   -> calculateO3IndexP(c)
      [] p = "co"   -> calculateCOIndexP(c)
      [] p = "so2"  -> calculateSO2IndexP(c)
      [] p = "no2"  -> calculateNO2IndexP(c)


(***************************************************************************)
(* Prediction controller: makePrediction and its helpers.  A series is a   *)
(* sequence of points, a point a sequence of numbers in the order          *)
(* pm25, pm10, o3, no2, so2, co.  Arrays are 1-based here, 0-based in the  *)
(* source.                                                                 *)
(***************************************************************************)
minRequiredDataPoints == 24

ZeroPoint == <<R(0), R(0), R(0), R(0), R(0), R(0)>>

\* mutant of unshiftLoop: the copies are appended (push)
pushLoop(data, paddingValue, paddingNeeded) ==
    LET after[i \in 0..paddingNeeded] ==
            IF i = 0 THEN data ELSE after[i - 1] \o <<paddingValue>>
    IN  after[paddingNeeded]

\* the loop of unshift calls: the array after paddingNeeded iterations
unshiftLoop(data, paddingValue, paddingNeeded) ==
    LET after[i \in 0..paddingNeeded] ==
            IF i = 0 THEN data ELSE <<paddingValue>> \o after[i - 1]
    IN  after[paddingNeeded]

\* the padding step of makePrediction: the array processedData after it
padSeries(data) ==
    IF Len(data) < minRequiredDataPoints
    THEN LET paddingNeeded == minRequiredDataPoints - Len(data)
             paddingValue == IF Len(data) > 0 THEN data[1] ELSE ZeroPoint
         IN  unshiftLoop(data, paddingValue, paddingNeeded)
    ELSE data

\* mins[i] after the forEach over all points (Math.min from Infinity on)
columnMin(data, i) ==
    LET upTo[k \in 1..Len(data)] ==
            IF k = 1 THEN data[1][i] ELSE MathMin(upTo[k - 1], data[k][i])
    IN  upTo[Len(data)]

\* maxs[i] after the forEach over all points (Math.max from -Infinity on)
columnMax(data, i) ==
    LET upTo[k \in 1..Len(data)] ==
            IF k = 1 THEN data[1][i] ELSE MathMax(upTo[k - 1], data[k][i])
    IN  upTo[Len(data)]

\* mins and maxs of normalizeData and denormalizeData
mins(data) == array([i \in 1..Len(data[1]) |-> columnMin(data, i)])

maxs(data) == array([i \in 1..Len(data[1]) |-> columnMax(data, i)])

\* data[0].length of an empty array is a TypeError
normalizeThrows(data) == Len(data) = 0

normalizeData(data) ==
    LET lo == mins(data)
        hi == maxs(data)
    IN  [k \in 1..Len(data) |->
            [i \in 1..Len(data[k]) |->
                IF REq(lo[i], hi[i]) THEN R(0)
                ELSE RDiv(RSub(data[k][i], lo[i]), RSub(hi[i], lo[i]))]]

\* the leading n elements of a point: point.slice(0, n)
sliceTo(point, n) == SubSeq(point, 1, IF Len(point) < n THEN Len(point) ELSE n)

\* normalizedData.map needs an array, point.slice(..).map an array element
denormalizeThrows(predictions) ==
    \/ ~predictions.isArray
    \/ \E k \in 1..Len(predictions.elems) : ~predictions.elems[k].isArray

\* mutant of denormalizeData: the minimum is not added back
denormalizeDataNoOffset(normalizedData, originalData) ==
    LET numFeatures == Len(originalData[1])
        lo == mins(originalData)
        hi == maxs(originalData)
    IN  [k \in 1..Len(normalizedData) |->
            LET point == sliceTo(normalizedData[k], numFeatures)
            IN  [i \in 1..Len(point) |->
                    IF REq(lo[i], hi[i]) THEN lo[i]
                    ELSE LET denormalized == RMul(point[i], RSub(hi[i], lo[i]))
                         IN  MathMax(R(0), MathMin(denormalized, RMul(hi[i], R(2))))]]

\* mutant of denormalizeData: the result is not bounded
denormalizeDataNoClamp(normalizedData, originalData) ==
    LET numFeatures == Len(originalData[1])
        lo == mins(originalData)
        hi == maxs(originalData)
    IN  [k \in 1..Len(normalizedData) |->
            LET point == sliceTo(normalizedData[k], numFeatures)
            IN  [i \in 1..Len(point) |->
                    IF REq(lo[i], hi[i]) THEN lo[i]
                    ELSE RAdd(RMul(point[i], RSub(hi[i], lo[i])), lo[i])]]

denormalizeData(normalizedData, originalData) ==
    LET numFeatures == Len(originalData[1])
        lo == mins(originalData)
        hi == maxs(originalData)
    IN  [k \in 1..Len(normalizedData) |->
            LET point == sliceTo(normalizedData[k], numFeatures)
            IN  [i \in 1..Len(point) |->
                    IF REq(lo[i], hi[i]) THEN lo[i]
                    ELSE LET denormalized ==
                                 RAdd(RMul(point[i], RSub(hi[i], lo[i])), lo[i])
                         IN  MathMax(R(0), MathMin(denormalized, RMul(hi[i], R(2))))]]

\* mutant of addWeatherFeatures: the columns are appended without looking
\* at whether there is weather data
addWeatherFeaturesAlways(data, weather) ==
    [k \in 1..Len(data) |->
        data[k] \o <<Frac(weather.temp, 100), Frac(weather.humidity, 100),
                     Frac(weather.wind_speed, 10)>>]

\* weatherData is [present |-> FALSE] for null
addWeatherFeatures(data, weather) ==
    IF ~weather.present THEN data
    ELSE [k \in 1..Len(data) |->
            data[k] \o <<Frac(weather.temp, 100), Frac(weather.humidity, 100),
                         Frac(weather.wind_speed, 10)>>]

\* fetchOpenWeatherData: its own try/catch turns every failure into null
NoWeather == [present |-> FALSE, temp |-> 0, humidity |-> 0, wind_speed |-> 0]

fetchOpenWeatherData(w) ==
    IF w.kind = "ok"
    THEN [present |-> TRUE, temp |-> w.temp, humidity |-> w.humidity,
          wind_speed |-> w.wind_speed]
    ELSE NoWeather

\* one forecast point from six pollutant values in series order
forecastPoint(v) ==
    LET pollutants == [p \in Pollutants |->
            CASE p = "pm25" -> v[1] [] p = "pm10" -> v[2] [] p = "o3" -> v[3]
              [] p = "no2" -> v[4] [] p = "so2" -> v[5] [] p = "co" -> v[6]]
    IN  [aqi |-> calculateAQIFromPollutants(pollutants), pollutants |-> pollutants]

\* the conversion of the denormalized predictions to forecast points
aqiPredictions(denormalizedPredictions) ==
    [k \in 1..Len(denormalizedPredictions) |->
        LET six == sliceTo(denormalizedPredictions[k], 6)
        IN  forecastPoint([i \in 1..Len(six) |-> MathMax(R(0), six[i])])]


(***************************************************************************)
(* The fallback forecaster.                                                *)
(***************************************************************************)
recentWindow == 72

\* a slice that keeps the whole array
sliceWhole(data, n) == data

\* processedData.slice(-72)
sliceLast(data, n) ==
    IF Len(data) <= n THEN data ELSE SubSeq(data, Len(data) - n + 1, Len(data))

\* the window the forecaster computes on
dataToUse(data) ==
    LET recentData == sliceLast(data, recentWindow)
    IN  IF Len(recentData) >= 24 THEN recentData
        ELSE [k \in 1..24 |->
                 IF Len(data) = 0 THEN ZeroPoint ELSE data[((k - 1) % Len(data)) + 1]]

\* averages[i] after the forEach over all points.  The additions are taken
\* in blocks of 12 points, which bounds the depth of the evaluation and, the
\* arithmetic being exact, leaves the sum as it is
averageLoop(data, i) ==
    LET n == Len(data)
        blocks == (n + 11) \div 12
        block[b \in 1..blocks] ==
            LET lo == 12 * (b - 1) + 1
                hi == IF 12 * b < n THEN 12 * b ELSE n
                part[k \in (lo - 1)..hi] ==
                    IF k = lo - 1 THEN R(0)
                    ELSE RAdd(part[k - 1], RDiv(data[k][i], R(n)))
            IN  part[hi]
        upTo[b \in 0..blocks] ==
            IF b = 0 THEN R(0) ELSE RAdd(upTo[b - 1], block[b])
    IN  upTo[blocks]

\* trends[j] after the loop over the points from the second on, the
\* additions in blocks of 12 points as above
trendLoop(data, j) ==
    LET n == Len(data)
        blocks == (n + 10) \div 12
        block[b \in 1..blocks] ==
            LET lo == 12 * (b - 1) + 2
                hi == IF 12 * b + 1 < n THEN 12 * b + 1 ELSE n
                part[k \in (lo - 1)..hi] ==
                    IF k = lo - 1 THEN R(0)
                    ELSE RAdd(part[k - 1],
                              RDiv(RSub(data[k][j], data[k - 1][j]), R(n - 1)))
            IN  part[hi]
        upTo[b \in 0..blocks] ==
            IF b = 0 THEN R(0) ELSE RAdd(upTo[b - 1], block[b])
    IN  upTo[blocks]

\* the number JavaScript makes of an array used as an operand of "-"
arrayToNumber(arr) ==
    IF Len(arr) = 0 THEN R(0) ELSE IF Len(arr) = 1 THEN arr[1] ELSE NaN

\* hourlyAverages[h][i] after the grouping loop: the total of feature i
\* over the points whose 0-based index idx has idx % 24 = h
hourlyTotal(data, h, i) ==
    LET count == IF h < Len(data) THEN ((Len(data) - 1 - h) \div 24) + 1 ELSE 0
        upTo[m \in 0..count] ==
            IF m = 0 THEN R(0)
            ELSE RAdd(upTo[m - 1], data[h + 1 + 24 * (m - 1)][i])
    IN  upTo[count]

\* row h + 1 holds hourlyAverages[h]
hourlyAverages(data) ==
    array([h1 \in 1..24 |->
              array([i \in 1..Len(data[1]) |-> hourlyTotal(data, h1 - 1, i)])])

\* element h + 1 holds hourlyCount[h]
hourlyCount(data) ==
    array([h1 \in 1..24 |-> Cardinality({k \in 1..Len(data) : (k - 1) % 24 = h1 - 1})])

\* row h + 1 holds patterns[h].  The subtrahend is hourlyAverages[i] with i
\* the 0-based feature index: a row of the totals, an array
extractDailyPatterns(data) ==
    LET totals == hourlyAverages(data)
        counts == hourlyCount(data)
    IN  array([h1 \in 1..24 |->
            array([i \in 1..Len(data[1]) |->
                IF counts[h1] = 0 THEN R(0)
                ELSE LET hourlyAverage == RDiv(totals[h1][i], R(counts[h1]))
                     IN  RSub(hourlyAverage, arrayToNumber(totals[i]))])])

\* the outcomes of Math.random() the model draws from
RandomValues == <<R(0), Frac(1, 2), Frac(9, 10)>>

\* Math.random() at forecast hour `hour`, feature i, under a seed
mathRandom(seed, hour, i) == RandomValues[((seed + hour + i) % 3) + 1]

\* the value of the loop variable `hour` when the k-th point is pushed
loopHour(k) == k - 1

\* (new Date().getHours() + hour) % 24
hourOfDay(nowHour, hour) == (nowHour + hour) % 24

\* the body of the forecast loop, pass by pass: for the k-th point the loop
\* variable, the bucket of the daily pattern and its row, and per feature the trend
\* term, the prediction before the variation, the variation and the
\* value pushed
fallbackSteps(data, seed, nowHour) ==
    LET window == array(dataToUse(data))
        numPollutants == Len(window[1])
        averages == array([i \in 1..numPollutants |-> averageLoop(window, i)])
        trends == array([j \in 1..numPollutants |->
                            IF Len(window) >= 2 THEN trendLoop(window, j)
                            ELSE R(0)])
        hasEnoughData == Len(window) >= 24
        dailyPatterns == extractDailyPatterns(window)
    IN  array([k \in 1..24 |->
            LET hour == loopHour(k)
                bucket == hourOfDay(nowHour, hour)
                trendTerm == array([i \in 1..numPollutants |->
                                       RMul(trends[i], R(hour))])
                prediction ==
                    array([i \in 1..numPollutants |->
                        IF hasEnoughData
                        THEN RAdd(RAdd(averages[i], trendTerm[i]),
                                  dailyPatterns[bucket + 1][i])
                        ELSE RAdd(averages[i], trendTerm[i])])
                variation ==
                    array([i \in 1..numPollutants |->
                        RMul(prediction[i],
                             RSub(RMul(mathRandom(seed, hour, i), Frac(1, 10)),
                                  Frac(5, 100)))])
            IN  [hour |-> hour,
                 hourOfDay |-> bucket,
                 pattern |-> dailyPatterns[bucket + 1],
                 averages |-> averages,
                 trends |-> trends,
                 trendTerm |-> trendTerm,
                 prediction |-> prediction,
                 variation |-> variation,
                 value |-> array([i \in 1..numPollutants |->
                              MathMax(R(0), RAdd(prediction[i], variation[i]))])]])

generateFallbackPrediction(data, seed, nowHour) ==
    LET steps == fallbackSteps(data, seed, nowHour)
    IN  array([k \in 1..24 |-> forecastPoint(steps[k].value)])


(***************************************************************************)
(* Inputs the model draws from.                                            *)
(***************************************************************************)
Shapes == {"flat", "rising", "declining", "faulty"}

\* the k-th point of a historical series of a given shape
seriesPoint(shape, k) ==
    CASE shape = "flat" -> <<R(35), Dec(525), R(20), R(0), R(0), R(0)>>
      [] shape = "rising" ->
            <<R(10 + k), R(20 + 2 * k), R(30 + k), R(5 + k), R(2 + k), Dec(k)>>
      [] shape = "declining" ->
            <<R(60 - k), R(90 - 2 * k), R(70 - k), R(40 - k), R(30 - k), Dec(40 - k)>>
      [] shape = "faulty" ->
            <<R(k - 30), R(-4), R(30 + k), R(0), R(2), Dec(k)>>

series(shape, n) == [k \in 1..n |-> seriesPoint(shape, k)]

\* who calls makePrediction: getPrediction with the stored sensor readings
\* (at least 24 of them), getPrediction with the CSV data (fewer than 24
\* stored readings, a CSV file that is not empty), or a direct call (drawn
\* for the empty series, which getPrediction never passes on)
Callers == {"sensor", "openaq_csv", "direct"}

\* the lengths at which a shape is drawn: readings of a faulty sensor
\* (negative values, which nothing filters out) at 24 points only
shapeAllows(shape, n) == shape = "faulty" => n = 24

callerAllows(c, n) ==
    CASE c = "sensor" -> n >= 24
      [] c = "openaq_csv" -> n >= 1 /\ n < 24
      [] c = "direct" -> n = 0

\* outcomes of the weather request
WeatherOutcomes ==
    {[kind |-> "ok", temp |-> 30, humidity |-> 80, wind_speed |-> 5],
     [kind |-> "noKey", temp |-> 0, humidity |-> 0, wind_speed |-> 0],
     [kind |-> "error", temp |-> 0, humidity |-> 0, wind_speed |-> 0],
     [kind |-> "noData", temp |-> 0, humidity |-> 0, wind_speed |-> 0]}

\* values a predictor puts into its vectors
PredVals == {R(-1), Frac(1, 2), R(3)}

\* numbers of vectors in a predictor response: none, one, the 24 asked for,
\* and more
PredCounts == {0, 1, 24, MaxPred}

vector(width, v) == [isArray |-> TRUE, vals |-> [i \in 1..width |-> v]]

scalar == [isArray |-> FALSE, vals |-> <<>>]

\* outcomes of the predictor request for an input of `width` columns:
\* a rejected request (transport error, abort, timeout), a body that is no
\* object, an object without predictions, an object whose predictions is no
\* array, and an array (bare or as predictions) of vectors or of scalars
Responses(width) ==
    {[kind |-> k, elems |-> <<>>] :
        k \in {"throw", "noData", "other", "predictionsNotArray"}}
    \cup {[kind |-> k, elems |-> [j \in 1..m |-> vector(width, v)]] :
            k \in {"array", "predictions"}, m \in PredCounts, v \in PredVals}
    \cup {[kind |-> k, elems |-> <<scalar>>] : k \in {"array", "predictions"}}

NoResponse == [kind |-> "none", elems |-> <<>>]

(***************************************************************************)
(* makePrediction as a state machine: called and padded, waiting for the   *)
(* weather, waiting for the predictor, done.                               *)
(***************************************************************************)
PipelineIdle ==
    /\ pc = "idle"
    /\ caller = "none"
    /\ input = <<>>
    /\ processedData = <<>>
    /\ weatherData = NoWeather
    /\ response = NoResponse
    /\ jitterSeed = 0
    /\ clockHour = 0
    /\ normInput = <<>>
    /\ payload = <<>>
    /\ fallbackInput = <<>>
    /\ producedBy = "none"
    /\ outcome = "pending"
    /\ result = <<>>
    /\ resSource = "none"

IxIdle == [pollutant |-> "pm25", conc |-> 0, doneDirect |-> TRUE, direct |-> R(0),
           doneForecast |-> TRUE, forecast |-> R(0)]

AgIdle == [reading |-> [p \in {} |-> R(0)], doneDirect |-> TRUE, direct |-> R(0),
           doneForecast |-> TRUE, forecast |-> R(0)]

\* no series has been handed to the normalization functions
RtIdle == [series |-> <<>>, done |-> TRUE, normalized |-> <<>>, back |-> <<>>]

\* subscribers' addresses, in the order find() returns their records
EmailOrder == <<"a@example.com", "b@example.com">>

Emails == {EmailOrder[k] : k \in 1..Len(EmailOrder)}

\* alert checks that can be under way at the same time
Checks == {1, 2}

NoSubscription ==
    [exists |-> FALSE, active |-> FALSE, threshold |-> 0, notified |-> FALSE,
     lastNotified |-> 0]

NoReading == [present |-> FALSE, aqi |-> 0]

CheckIdle == [pc |-> "idle", currentAQI |-> 0, due |-> {}, attempted |-> {},
              sentTo |-> "none", stamp |-> 0, sentCount |-> 0, delivered |-> {},
              error |-> FALSE, returned |-> 0]

\* the alert service before any request
AlertsIdle ==
    /\ subscriptions = [e \in Emails |-> NoSubscription]
    /\ latestData = NoReading
    /\ clock = 0
    /\ checks = [c \in Checks |-> CheckIdle]
    /\ unsubscribed = {}

\* the fallback forecaster has not been run on its own
FbIdle == [data |-> <<>>, seed |-> 0, nowHour |-> 0, done |-> TRUE, steps |-> <<>>]

\* invocations of makePrediction that can be under way at the same time
Invocations == {1, 2}

InvIdle ==
    [pc |-> "idle", input |-> <<>>, array |-> 0, weather |-> NoWeather,
     response |-> NoResponse, normalized |-> <<>>, payload |-> <<>>,
     fallbackInput |-> <<>>, draw |-> [seed |-> 0, hour |-> 0],
     producedBy |-> "none", result |-> <<>>]

ConcurrentIdle ==
    /\ heap = [a \in Invocations |-> <<>>]
    /\ inv = [i \in Invocations |-> InvIdle]

\* no reading is being stored
StoreIdle == [path |-> "none", body |-> <<>>, done |-> TRUE, record |-> <<>>]

\* subscribe and unsubscribe requests that can be under way at the same time
Requests == {1, 2}

ReqIdle == [pc |-> "idle", kind |-> "none", email |-> "", threshold |-> 0,
            healthConditions |-> "none", found |-> 0, status |-> 0,
            wrote |-> FALSE]

StorageIdle ==
    /\ store = StoreIdle
    /\ records = {}
    /\ reqs = [r \in Requests |-> ReqIdle]

SideIdle == rt = RtIdle /\ AlertsIdle /\ fb = FbIdle /\ ConcurrentIdle /\ StorageIdle

Init ==
    /\ PipelineIdle
    /\ SideIdle
    /\ hfKey \in BOOLEAN
    /\ ix = IxIdle
    /\ ag = AgIdle

\* mutant of Guarded: the API key check stands before the try block
GuardedAfterKey(stage) ==
    stage \in {"normalize", "request", "validate", "denormalize", "convert"}

\* the statements of makePrediction that stand inside its try block
Guarded(stage) ==
    stage \in {"pad", "weather", "key", "normalize", "request", "validate",
               "denormalize", "convert"}

\* what getPrediction puts in the "source" field of its response
sourceTag(c) == IF c = "direct" THEN "none" ELSE c

\* the random source and the clock of a run of the fallback forecaster
FallbackDraws == {[seed |-> 0, hour |-> 0], [seed |-> 1, hour |-> 23]}

\* mutant of fallbackArgument: the catch block passes on the series last
\* built for the predictor
fallbackArgumentEnhanced(original, enhanced) ==
    IF enhanced = <<>> THEN original ELSE enhanced

\* the argument of generateFallbackPrediction in the catch block: the
\* array processedData, which normalizeData and addWeatherFeatures copy
\* and never write to
fallbackArgument(original, enhanced) == original

\* an error raised at `stage`: the catch block returns the fallback's
\* forecast; outside the try block it would leave makePrediction
Raise(stage) ==
    /\ pc' = "done"
    /\ IF Guarded(stage)
       THEN \E draw \in FallbackDraws :
               /\ jitterSeed' = draw.seed
               /\ clockHour' = draw.hour
               /\ fallbackInput' = fallbackArgument(processedData, payload)
               /\ result' = generateFallbackPrediction(
                                fallbackArgument(processedData, payload),
                                draw.seed, draw.hour)
               /\ producedBy' = "fallback"
               /\ outcome' = "returned"
               /\ resSource' = sourceTag(caller)
       ELSE /\ UNCHANGED <<jitterSeed, clockHour, fallbackInput, result, producedBy>>
            /\ outcome' = "threw"
            /\ resSource' = IF caller = "direct" THEN "none" ELSE "error500"

\* makePrediction is entered with a series: the padding runs, then the
\* weather request is awaited
Call ==
    /\ pc = "idle"
    /\ \E c \in Callers, n \in 0..MaxLen, shape \in Shapes :
          /\ callerAllows(c, n)
          /\ shapeAllows(shape, n)
          /\ caller' = c
          /\ input' = series(shape, n)
          /\ processedData' = padSeries(series(shape, n))
    /\ pc' = "weather"
    /\ UNCHANGED <<sideVars, ix, ag, weatherData, hfKey, response, jitterSeed, clockHour,
                   normInput, payload, fallbackInput, producedBy, outcome, result,
                   resSource>>

\* getPrediction with fewer than 24 stored readings and an empty CSV file
\* answers 400 and never calls makePrediction
CallNoData ==
    /\ pc = "idle"
    /\ pc' = "done"
    /\ caller' = "openaq_csv"
    /\ outcome' = "http400"
    /\ resSource' = "error400"
    /\ UNCHANGED <<sideVars, ix, ag, input, processedData, weatherData, hfKey, response,
                   jitterSeed, clockHour, normInput, payload, fallbackInput,
                   producedBy, result>>

\* the weather request settles; without an API key the error is raised,
\* else the series is normalized, augmented and sent to the predictor
WeatherReturns ==
    /\ pc = "weather"
    /\ \E w \in WeatherOutcomes : weatherData' = fetchOpenWeatherData(w)
    /\ \/ /\ ~hfKey
          /\ Raise("key")
          /\ UNCHANGED <<normInput, payload>>
       \/ /\ hfKey
          /\ normalizeThrows(processedData)
          /\ Raise("normalize")
          /\ normInput' = processedData
          /\ UNCHANGED payload
       \/ /\ hfKey
          /\ ~normalizeThrows(processedData)
          /\ normInput' = processedData
          /\ payload' = addWeatherFeatures(normalizeData(processedData), weatherData')
          /\ pc' = "predictor"
          /\ UNCHANGED <<jitterSeed, clockHour, fallbackInput, producedBy, outcome,
                         result, resSource>>
    /\ UNCHANGED <<sideVars, ix, ag, caller, input, processedData, hfKey, response>>

\* the predictions array taken from a response body
responsePredictions(resp) ==
    [isArray |-> resp.kind \in {"array", "predictions"}, elems |-> resp.elems]

\* mutant of failingStage: an object without predictions is taken as an
\* empty list of predictions
failingStageLenient(resp) ==
    IF resp.kind = "throw" THEN "request"
    ELSE IF resp.kind = "noData" THEN "validate"
    ELSE IF resp.kind = "other" THEN "none"
    ELSE IF denormalizeThrows(responsePredictions(resp)) THEN "denormalize"
    ELSE "none"

\* the stage at which a response makes makePrediction raise; "none" if it
\* does not
failingStage(resp) ==
    IF resp.kind = "throw" THEN "request"
    ELSE IF resp.kind \in {"noData", "other"} THEN "validate"
    ELSE IF denormalizeThrows(responsePredictions(resp)) THEN "denormalize"
    ELSE "none"

\* the predictor request settles
PredictorReturns ==
    /\ pc = "predictor"
    /\ \E resp \in Responses(Len(payload[1])) :
          /\ response' = resp
          /\ \/ /\ failingStage(resp) # "none"
                /\ Raise(failingStage(resp))
             \/ /\ failingStage(resp) = "none"
                /\ result' = aqiPredictions(denormalizeData(
                                [k \in 1..Len(resp.elems) |-> resp.elems[k].vals],
                                processedData))
                /\ producedBy' = "remote"
                /\ outcome' = "returned"
                /\ resSource' = sourceTag(caller)
                /\ pc' = "done"
                /\ UNCHANGED <<jitterSeed, clockHour, fallbackInput>>
    /\ UNCHANGED <<sideVars, ix, ag, caller, input, processedData, weatherData, hfKey,
                   normInput, payload>>

Next == Call \/ CallNoData \/ WeatherReturns \/ PredictorReturns

Spec == Init /\ [][Next]_vars


(***************************************************************************)
(* The sub-index functions applied to one concentration: pollutant and     *)
(* concentration (in tenths) are drawn at the start, then each copy of the *)
(* function is applied to them.                                            *)
(***************************************************************************)
\* the upper bound, in tenths, of the last breakpoint tabled for p in either
\* copy
lastTabled(p) ==
    CASE p = "pm25" -> 5004
      [] p = "pm10" -> 6040
      [] p = "o3"   -> 5040
      [] p = "co"   -> 504
      [] p = "so2"  -> 10040
      [] p = "no2"  -> 20490

InitIndex ==
    /\ PipelineIdle
    /\ SideIdle
    /\ hfKey = TRUE
    /\ ag = AgIdle
    /\ ix \in {[pollutant |-> p, conc |-> c, doneDirect |-> FALSE, direct |-> R(0),
                doneForecast |-> FALSE, forecast |-> R(0)] :
                 p \in Pollutants, c \in 0..(lastTabled("no2") + Beyond)}
    /\ ix.conc <= lastTabled(ix.pollutant) + Beyond

\* a reading's sub-index on the direct-reading path (aqiCalculator.js)
IndexDirect ==
    /\ ~ix.doneDirect
    /\ ix' = [ix EXCEPT !.doneDirect = TRUE,
                        !.direct = indexFor(ix.pollutant, Dec(ix.conc))]
    /\ UNCHANGED <<ag, pipelineVars, sideVars>>

\* a forecast value's sub-index (the prediction controller's copy)
IndexForecast ==
    /\ ~ix.doneForecast
    /\ ix' = [ix EXCEPT !.doneForecast = TRUE,
                        !.forecast = indexForP(ix.pollutant, Dec(ix.conc))]
    /\ UNCHANGED <<ag, pipelineVars, sideVars>>

NextIndex == IndexDirect \/ IndexForecast

SpecIndex == InitIndex /\ [][NextIndex]_vars

(***************************************************************************)
(* Aggregation of one reading on each path.                                *)
(***************************************************************************)
\* values a pollutant of a reading takes: negative, zero, low, high
ReadingValues == {Dec(-10), R(0), R(2), R(60)}

Readings == UNION {[S -> ReadingValues] : S \in SUBSET Pollutants}

InitAggregate ==
    /\ PipelineIdle
    /\ SideIdle
    /\ hfKey = TRUE
    /\ ix = IxIdle
    /\ ag \in {[reading |-> r, doneDirect |-> FALSE, direct |-> R(0),
                doneForecast |-> FALSE, forecast |-> R(0)] : r \in Readings}

AggregateDirect ==
    /\ ~ag.doneDirect
    /\ ag' = [ag EXCEPT !.doneDirect = TRUE, !.direct = calculateAQI(ag.reading)]
    /\ UNCHANGED <<ix, pipelineVars, sideVars>>

AggregateForecast ==
    /\ ~ag.doneForecast
    /\ ag' = [ag EXCEPT !.doneForecast = TRUE,
                        !.forecast = calculateAQIFromPollutants(ag.reading)]
    /\ UNCHANGED <<ix, pipelineVars, sideVars>>

NextAggregate == AggregateDirect \/ AggregateForecast

SpecAggregate == InitAggregate /\ [][NextAggregate]_vars

(***************************************************************************)
(* The breakpoint segments of aqiCalculator.js as data: for each pollutant *)
(* the rows <<concLow, concHigh, aqiLow, aqiHigh>>, concentrations in      *)
(* tenths.                                                                 *)
(***************************************************************************)
Segments(p) ==
    CASE p = "pm25" ->
            << <<0, 120, 0, 50>>, <<121, 354, 51, 100>>, <<355, 554, 101, 150>>,
               <<555, 1504, 151, 200>>, <<1505, 2504, 201, 300>>,
               <<2505, 3504, 301, 400>>, <<3505, 5004, 401, 500>> >>
      [] p = "pm10" ->
            << <<0, 540, 0, 50>>, <<550, 1540, 51, 100>>, <<1550, 2540, 101, 150>>,
               <<2550, 3540, 151, 200>>, <<3550, 4240, 201, 300>>,
               <<4250, 5040, 301, 400>>, <<5050, 6040, 401, 500>> >>
      [] p = "o3" ->
            << <<0, 540, 0, 50>>, <<550, 700, 51, 100>>, <<710, 850, 101, 150>>,
               <<860, 1050, 151, 200>>, <<1060, 2000, 201, 300>>,
               <<2010, 5040, 301, 500>> >>
      [] p = "co" ->
            << <<0, 10, 0, 50>>, <<11, 20, 51, 100>>, <<21, 44, 101, 150>>,
               <<45, 94, 151, 200>>, <<95, 124, 201, 300>>, <<125, 154, 301, 500>> >>
      [] p = "so2" ->
            << <<0, 350, 0, 50>>, <<360, 750, 51, 100>>, <<760, 1850, 101, 150>>,
               <<1860, 3040, 151, 200>>, <<3050, 6040, 201, 300>>,
               <<6050, 8040, 301, 400>>, <<8050, 10040, 401, 500>> >>
      [] p = "no2" ->
            << <<0, 530, 0, 50>>, <<540, 1000, 51, 100>>, <<1010, 3600, 101, 150>>,
               <<3610, 6490, 151, 200>>, <<6500, 12490, 201, 300>>,
               <<12500, 16490, 301, 400>>, <<16500, 20490, 401, 500>> >>

lastSegment(p) == Segments(p)[Len(Segments(p))]

(***************************************************************************)
(* normalizeData followed by denormalizeData with the statistics of the    *)
(* same series: the series is drawn at the start, then both are applied.   *)
(***************************************************************************)
\* longest series handed to the two functions
MaxSeries == 3

\* feature values of those series
SeriesValues == {Dec(-20), R(0), R(1), Dec(25)}

\* series of one to MaxSeries points of two features
SmallSeries ==
    UNION {[1..n -> [1..2 -> SeriesValues]] : n \in 1..MaxSeries}

InitRoundTrip ==
    /\ PipelineIdle
    /\ hfKey = TRUE
    /\ ix = IxIdle
    /\ ag = AgIdle
    /\ AlertsIdle
    /\ fb = FbIdle
    /\ ConcurrentIdle
    /\ StorageIdle
    /\ rt \in {[series |-> x, done |-> FALSE, normalized |-> <<>>, back |-> <<>>] :
                  x \in SmallSeries}

RoundTrip ==
    /\ ~rt.done
    /\ rt' = [rt EXCEPT !.done = TRUE,
                        !.normalized = normalizeData(rt.series),
                        !.back = denormalizeData(normalizeData(rt.series),
                                                 rt.series)]
    /\ UNCHANGED <<ix, ag, pipelineVars, alertVars, fb, concurrentVars, storageVars>>

NextRoundTrip == RoundTrip

SpecRoundTrip == InitRoundTrip /\ [][NextRoundTrip]_vars

(***************************************************************************)
(* The alert service (emailController.js): subscribe and unsubscribe       *)
(* requests, readings being stored, and alert checks, each check being a   *)
(* chain of awaited steps that other requests and checks interleave with.  *)
(* A new subscription is active and has never been notified.               *)
(***************************************************************************)
\* hours on the clock
MaxClock == 7

\* 6 * 60 * 60 * 1000 ms, in hours
timeBuffer == 6

Thresholds == {50, 100}

\* aqi values of stored readings
StoredAQIs == {0, 80}

\* mutant of subscriptionsToNotify: the query does not ask for active
subscriptionsToNotifyAll(subs, currentAQI, now) ==
    {e \in Emails :
        /\ subs[e].exists
        /\ subs[e].threshold <= currentAQI
        /\ \/ ~subs[e].notified
           \/ subs[e].lastNotified < now - timeBuffer}

\* the find() of checkAndSendAlerts
subscriptionsToNotify(subs, currentAQI, now) ==
    {e \in Emails :
        /\ subs[e].exists
        /\ subs[e].active
        /\ subs[e].threshold <= currentAQI
        /\ \/ ~subs[e].notified
           \/ subs[e].lastNotified < now - timeBuffer}

\* the subscription the for loop of a check handles next
nextDue(chk) ==
    LET k == CHOOSE k \in 1..Len(EmailOrder) :
                 /\ EmailOrder[k] \in chk.due \ chk.attempted
                 /\ \A j \in 1..(k - 1) : EmailOrder[j] \notin chk.due \ chk.attempted
    IN  EmailOrder[k]

\* where a check goes on after a subscription has been handled
afterOne(chk) == IF chk.due \ chk.attempted = {} THEN "done" ELSE "sending"

InitAlerts ==
    /\ PipelineIdle
    /\ hfKey = TRUE
    /\ ix = IxIdle
    /\ ag = AgIdle
    /\ rt = RtIdle
    /\ fb = FbIdle
    /\ ConcurrentIdle
    /\ StorageIdle
    /\ AlertsIdle

\* subscribeEmail: an existing record is updated and made active, else a
\* new one is created
subscribeEmail ==
    /\ \E e \in Emails, t \in Thresholds :
          /\ subscriptions' =
                [subscriptions EXCEPT ![e] =
                    IF subscriptions[e].exists
                    THEN [subscriptions[e] EXCEPT !.threshold = t, !.active = TRUE]
                    ELSE [exists |-> TRUE, active |-> TRUE, threshold |-> t,
                          notified |-> FALSE, lastNotified |-> 0]]
          /\ unsubscribed' = unsubscribed \ {e}
    /\ UNCHANGED <<latestData, clock, checks, rt, fb, concurrentVars, storageVars, ix, ag, pipelineVars>>

\* unsubscribeEmail: 404 without a record, else the record is marked
\* inactive and 200 is answered
unsubscribeEmail ==
    /\ \E e \in Emails :
          IF subscriptions[e].exists
          THEN /\ subscriptions' = [subscriptions EXCEPT ![e].active = FALSE]
               /\ unsubscribed' = unsubscribed \cup {e}
          ELSE UNCHANGED <<subscriptions, unsubscribed>>
    /\ UNCHANGED <<latestData, clock, checks, rt, fb, concurrentVars, storageVars, ix, ag, pipelineVars>>

\* a reading is stored
saveReading ==
    /\ \E a \in StoredAQIs : latestData' = [present |-> TRUE, aqi |-> a]
    /\ UNCHANGED <<subscriptions, clock, checks, unsubscribed, rt, fb, concurrentVars, storageVars, ix,
                   ag, pipelineVars>>

\* time passes: the length of the notification buffer, or an hour more
Tick ==
    /\ \E d \in {timeBuffer, timeBuffer + 1} :
          /\ clock + d <= MaxClock
          /\ clock' = clock + d
    /\ UNCHANGED <<subscriptions, latestData, checks, unsubscribed, rt, fb,
                   concurrentVars, storageVars, ix, ag, pipelineVars>>

\* a check that returns: the count of the emails sent
returns(chk) == [chk EXCEPT !.pc = "done", !.returned = chk.sentCount]

\* a check whose error reaches the outer catch: it returns 0
caught(chk) == [CheckIdle EXCEPT !.pc = "done", !.error = TRUE, !.returned = 0]

\* a check after one pass of its loop
loops(chk) == IF afterOne(chk) = "done" THEN returns(chk) ELSE chk

\* mutant of afterSend: a failed send is handled like a sent email
afterSendAlways(chk, e, sent, now) ==
    [chk EXCEPT !.attempted = @ \cup {e}, !.pc = "saving", !.sentTo = e,
                !.stamp = now, !.sentCount = @ + 1,
                !.delivered = IF sent THEN @ \cup {e} ELSE @]

\* a check after sendAlertEmail for e has settled: with the email sent the
\* count goes up and the time is taken for lastNotified; with an error the
\* inner catch logs it and the loop goes on
afterSend(chk, e, sent, now) ==
    IF sent
    THEN [chk EXCEPT !.attempted = @ \cup {e}, !.pc = "saving", !.sentTo = e,
                     !.stamp = now, !.sentCount = @ + 1,
                     !.delivered = @ \cup {e}]
    ELSE loops([chk EXCEPT !.attempted = @ \cup {e}])

\* checkAndSendAlerts is called and its read of the latest reading
\* settles: without a reading, or with an aqi <= 0, it returns 0; an error
\* of the read is caught
CheckReads ==
    /\ \E c \in Checks, ok \in BOOLEAN :
          /\ checks[c].pc \in {"idle", "done"}
          /\ checks' = [checks EXCEPT ![c] =
                IF ~ok THEN caught(checks[c])
                ELSE IF ~latestData.present \/ latestData.aqi <= 0
                THEN returns(CheckIdle)
                ELSE [CheckIdle EXCEPT !.pc = "read",
                                       !.currentAQI = latestData.aqi]]
    /\ UNCHANGED <<subscriptions, latestData, clock, unsubscribed, rt, fb,
                   concurrentVars, storageVars, ix, ag, pipelineVars>>

\* the query for the subscriptions to notify settles; an error of the
\* query is caught
CheckQueries ==
    /\ \E c \in Checks, ok \in BOOLEAN :
          /\ checks[c].pc = "read"
          /\ LET due == subscriptionsToNotify(subscriptions, checks[c].currentAQI,
                                              clock)
             IN  checks' = [checks EXCEPT ![c] =
                    IF ~ok THEN caught(checks[c])
                    ELSE IF due = {} THEN returns([checks[c] EXCEPT !.due = due])
                    ELSE [checks[c] EXCEPT !.due = due, !.pc = "sending"]]
    /\ UNCHANGED <<subscriptions, latestData, clock, unsubscribed, rt, fb,
                   concurrentVars, storageVars, ix, ag, pipelineVars>>

\* sendAlertEmail for the next subscription settles: the mail went out, or
\* the error is caught and the loop goes on
CheckSends ==
    /\ \E c \in Checks, sent \in BOOLEAN :
          /\ checks[c].pc = "sending"
          /\ LET e == nextDue(checks[c])
             IN  checks' = [checks EXCEPT ![c] = afterSend(checks[c], e, sent, clock)]
    /\ UNCHANGED <<subscriptions, latestData, clock, unsubscribed, rt, fb, concurrentVars, storageVars, ix, ag,
                   pipelineVars>>

\* the save of lastNotified settles: stored, or the error is caught and
\* the loop goes on
CheckSaves ==
    /\ \E c \in Checks, ok \in BOOLEAN :
          /\ checks[c].pc = "saving"
          /\ IF ok
             THEN subscriptions' = [subscriptions EXCEPT
                                       ![checks[c].sentTo].notified = TRUE,
                                       ![checks[c].sentTo].lastNotified = checks[c].stamp]
             ELSE UNCHANGED subscriptions
          /\ checks' = [checks EXCEPT ![c] =
                           loops([checks[c] EXCEPT !.pc = afterOne(checks[c]),
                                                   !.sentTo = "none", !.stamp = 0])]
    /\ UNCHANGED <<latestData, clock, unsubscribed, rt, fb, concurrentVars, storageVars, ix, ag,
                   pipelineVars>>

NextAlerts ==
    \/ subscribeEmail \/ unsubscribeEmail \/ saveReading \/ Tick
    \/ CheckReads \/ CheckQueries \/ CheckSends \/ CheckSaves

SpecAlerts == InitAlerts /\ [][NextAlerts]_vars

(***************************************************************************)
(* generateFallbackPrediction on its own: series, random source and clock  *)
(* are drawn at the start, then the forecaster runs and the passes of its  *)
(* loop are kept.                                                          *)
(***************************************************************************)
\* new Date().getHours() at the time of the run
ClockHours == {0, 13, 23}

\* how many points older than the forecaster's window the longest series has
Older == 2

\* the lengths of the series the forecaster is given: up to the pipeline's
\* longest, and some longer than the window
FallbackLengths == (1..MaxLen) \cup ((recentWindow + 1)..(recentWindow + Older))

JitterSeeds == {0, 1}

InitFallback ==
    /\ PipelineIdle
    /\ hfKey = TRUE
    /\ ix = IxIdle
    /\ ag = AgIdle
    /\ rt = RtIdle
    /\ AlertsIdle
    /\ ConcurrentIdle
    /\ StorageIdle
    /\ \E shape \in Shapes, n \in FallbackLengths, seed \in JitterSeeds, h \in ClockHours :
          /\ shapeAllows(shape, n)
          /\ fb = [data |-> series(shape, n), seed |-> seed, nowHour |-> h,
                   done |-> FALSE, steps |-> <<>>]

Forecast ==
    /\ ~fb.done
    /\ fb' = [fb EXCEPT !.done = TRUE,
                        !.steps = fallbackSteps(fb.data, fb.seed, fb.nowHour)]
    /\ UNCHANGED <<ix, ag, pipelineVars, rt, alertVars, concurrentVars, storageVars>>

NextFallback == Forecast

SpecFallback == InitFallback /\ [][NextFallback]_vars

(***************************************************************************)
(* Two invocations of makePrediction under way at the same time.  Each     *)
(* runs from its call to its first await (the padding), from there to the  *)
(* second await (normalization and request), and from there to its end;    *)
(* the other invocation may run between these.  The variables of the       *)
(* function are locals of the invocation; the array it is handed lives on  *)
(* the heap.                                                               *)
(***************************************************************************)
\* mutant of arrayOf: every request works on one and the same array
arrayShared(i) == 1

\* the array invocation i is handed: getPrediction builds a new one for
\* every request (processSensorData, processOpenAQData)
arrayOf(i) == i

ConcurrentInputs == {series(shape, n) : shape \in {"rising", "declining"}, n \in {3, 24}}

ConcurrentWeather == {w \in WeatherOutcomes : w.kind \in {"ok", "error"}}

ConcurrentResponses ==
    {[kind |-> "throw", elems |-> <<>>],
     [kind |-> "array", elems |-> <<vector(6, Frac(1, 2))>>]}

\* the catch block of an invocation
fallenBack(v, data, draw) ==
    [v EXCEPT !.pc = "done",
              !.fallbackInput = data,
              !.draw = draw,
              !.producedBy = "fallback",
              !.result = generateFallbackPrediction(data, draw.seed, draw.hour)]

InitConcurrent ==
    /\ PipelineIdle
    /\ hfKey \in BOOLEAN
    /\ ix = IxIdle
    /\ ag = AgIdle
    /\ rt = RtIdle
    /\ fb = FbIdle
    /\ AlertsIdle
    /\ ConcurrentIdle
    /\ StorageIdle

\* invocation i is called with a series and pads its array
CallC ==
    /\ \E i \in Invocations, x \in ConcurrentInputs :
          /\ inv[i].pc = "idle"
          /\ heap' = [heap EXCEPT ![arrayOf(i)] = padSeries(x)]
          /\ inv' = [inv EXCEPT ![i] = [InvIdle EXCEPT !.pc = "weather",
                                                       !.input = x,
                                                       !.array = arrayOf(i)]]
    /\ UNCHANGED <<ix, ag, pipelineVars, rt, fb, alertVars, storageVars>>

\* the weather request of invocation i settles
WeatherReturnsC ==
    /\ \E i \in Invocations, w \in ConcurrentWeather :
          /\ inv[i].pc = "weather"
          /\ LET data == heap[inv[i].array]
                 v == [inv[i] EXCEPT !.weather = fetchOpenWeatherData(w)]
             IN  IF ~hfKey
                 THEN \E draw \in FallbackDraws :
                          inv' = [inv EXCEPT ![i] = fallenBack(v, data, draw)]
                 ELSE inv' = [inv EXCEPT ![i] =
                         [v EXCEPT !.pc = "predictor",
                                   !.normalized = data,
                                   !.payload = addWeatherFeatures(
                                                   normalizeData(data), v.weather)]]
    /\ UNCHANGED <<heap, ix, ag, pipelineVars, rt, fb, alertVars, storageVars>>

\* the predictor request of invocation i settles
PredictorReturnsC ==
    /\ \E i \in Invocations, resp \in ConcurrentResponses :
          /\ inv[i].pc = "predictor"
          /\ LET data == heap[inv[i].array]
                 v == [inv[i] EXCEPT !.response = resp]
             IN  IF failingStage(resp) # "none"
                 THEN \E draw \in FallbackDraws :
                          inv' = [inv EXCEPT ![i] = fallenBack(v, data, draw)]
                 ELSE inv' = [inv EXCEPT ![i] =
                         [v EXCEPT !.pc = "done",
                                   !.producedBy = "remote",
                                   !.result = aqiPredictions(denormalizeData(
                                       [k \in 1..Len(resp.elems) |-> resp.elems[k].vals],
                                       data))]]
    /\ UNCHANGED <<heap, ix, ag, pipelineVars, rt, fb, alertVars, storageVars>>

NextConcurrent == CallC \/ WeatherReturnsC \/ PredictorReturnsC

SpecConcurrent == InitConcurrent /\ [][NextConcurrent]_vars

(***************************************************************************)
(* Claims.                                                                 *)

(***************************************************************************)
(* Storing a reading: the upload endpoint (two versions of its handler)    *)
(* and the handler of a line from the serial port.  Of a stored record the *)
(* model keeps the six pollutant fields and aqi.                           *)
(***************************************************************************)
BodyFields == {"aqi", "pm25", "pm10", "co"}

BodyValues == {R(0), R(3), R(60)}

\* request bodies, and for the serial port the fields of the parsed line
\* (co) and of the air pollution response (pm25, pm10, and aqi for
\* list[0].main.aqi)
Bodies == UNION {[S -> BodyValues] : S \in SUBSET BodyFields}

StorePaths == {"saveSensorDataFromBody", "saveSensorData", "serialWithApi",
               "serialApiFailed", "serialNoKey"}

\* the air pollution response always carries main.aqi, an index from 1 to 5
pathAllows(path, body) ==
    path = "serialWithApi" => ("aqi" \in DOMAIN body /\ body["aqi"] = R(3))

\* body.f || 0
orZero(body, f) ==
    IF f \in DOMAIN body /\ ~IsNaN(body[f]) /\ ~REq(body[f], R(0))
    THEN body[f] ELSE R(0)

\* the pollutant fields every handler fills from its input
pollutantFields(body) ==
    [p \in Pollutants |-> orZero(body, p)]

stored(aqi, pollutants) ==
    [f \in Pollutants \cup {"aqi"} |-> IF f = "aqi" THEN aqi ELSE pollutants[f]]

InitStore ==
    /\ PipelineIdle
    /\ hfKey = TRUE
    /\ ix = IxIdle
    /\ ag = AgIdle
    /\ rt = RtIdle
    /\ fb = FbIdle
    /\ AlertsIdle
    /\ ConcurrentIdle
    /\ records = {}
    /\ reqs = [r \in Requests |-> ReqIdle]
    /\ \E path \in StorePaths, body \in Bodies :
          /\ pathAllows(path, body)
          /\ store = [path |-> path, body |-> body, done |-> FALSE, record |-> <<>>]

\* saveSensorData, the version that stores the aqi of the request body
saveSensorDataFromBody ==
    /\ store.path = "saveSensorDataFromBody" /\ ~store.done
    /\ store' = [store EXCEPT !.done = TRUE,
                    !.record = stored(orZero(store.body, "aqi"),
                                      pollutantFields(store.body))]
    /\ UNCHANGED <<ix, ag, pipelineVars, rt, fb, alertVars, concurrentVars, records, reqs>>

\* saveSensorData, the version that calculates the aqi
saveSensorData ==
    /\ store.path = "saveSensorData" /\ ~store.done
    /\ store' = [store EXCEPT !.done = TRUE,
                    !.record = stored(calculateAQI(pollutantFields(store.body)),
                                      pollutantFields(store.body))]
    /\ UNCHANGED <<ix, ag, pipelineVars, rt, fb, alertVars, concurrentVars, records, reqs>>

\* a line from the serial port with both API requests answered
parserOnDataWithApi ==
    /\ store.path = "serialWithApi" /\ ~store.done
    /\ store' = [store EXCEPT !.done = TRUE,
                    !.record = stored(orZero(store.body, "aqi"),
                                      pollutantFields(store.body))]
    /\ UNCHANGED <<ix, ag, pipelineVars, rt, fb, alertVars, concurrentVars, records, reqs>>

\* the fields of a record that holds the Arduino's values only
arduinoOnly(body) ==
    stored(R(0), [p \in Pollutants |-> IF p = "co" THEN orZero(body, "co") ELSE R(0)])

\* a line from the serial port with an API request that failed
parserOnDataApiFailed ==
    /\ store.path = "serialApiFailed" /\ ~store.done
    /\ store' = [store EXCEPT !.done = TRUE, !.record = arduinoOnly(store.body)]
    /\ UNCHANGED <<ix, ag, pipelineVars, rt, fb, alertVars, concurrentVars, records, reqs>>

\* a line from the serial port without an API key
parserOnDataNoKey ==
    /\ store.path = "serialNoKey" /\ ~store.done
    /\ store' = [store EXCEPT !.done = TRUE, !.record = arduinoOnly(store.body)]
    /\ UNCHANGED <<ix, ag, pipelineVars, rt, fb, alertVars, concurrentVars, records, reqs>>

NextStore ==
    \/ saveSensorDataFromBody \/ saveSensorData \/ parserOnDataWithApi
    \/ parserOnDataApiFailed \/ parserOnDataNoKey

SpecStore == InitStore /\ [][NextStore]_vars


(***************************************************************************)
(* Subscribe and unsubscribe requests, step by step: a request gives way   *)
(* to the other at each await.  The EmailSubscription collection is a set  *)
(* of documents; the controller's code is all that is known of it.         *)
(***************************************************************************)
\* how many documents the collection holds at most
MaxRecords == 2

\* a request body without an email
NoEmail == ""

\* the threshold and health conditions of a subscribe request: given, or
\* left to their defaults
SubscribeInputs ==
    {[threshold |-> 50, healthConditions |-> "asthma"],
     [threshold |-> 100, healthConditions |-> "none"]}

\* EmailSubscription.findOne({ email }): the id of the first document with
\* the email, 0 for null
findOne(docs, email) ==
    IF \E d \in docs : d.email = email
    THEN CHOOSE id \in 1..MaxRecords :
             /\ \E d \in docs : d.id = id /\ d.email = email
             /\ \A d \in docs : d.email = email => d.id >= id
    ELSE 0

\* a request that has answered
answered(req, status) ==
    [ReqIdle EXCEPT !.pc = "done", !.kind = req.kind, !.status = status,
                    !.wrote = req.wrote]

InitSubscribe ==
    /\ PipelineIdle
    /\ hfKey = TRUE
    /\ ix = IxIdle
    /\ ag = AgIdle
    /\ rt = RtIdle
    /\ fb = FbIdle
    /\ AlertsIdle
    /\ ConcurrentIdle
    /\ StorageIdle

\* subscribeEmail up to its first await: 400 without an email
SubscribeArrives ==
    /\ \E r \in Requests, e \in Emails \cup {NoEmail}, in \in SubscribeInputs :
          /\ reqs[r].pc \in {"idle", "done"}
          /\ reqs' = [reqs EXCEPT ![r] =
                IF e = NoEmail
                THEN [ReqIdle EXCEPT !.pc = "done", !.kind = "subscribe",
                                     !.status = 400]
                ELSE [ReqIdle EXCEPT !.pc = "finding", !.kind = "subscribe",
                                     !.email = e, !.threshold = in.threshold,
                                     !.healthConditions = in.healthConditions]]
    /\ UNCHANGED <<ix, ag, pipelineVars, rt, fb, alertVars, concurrentVars, store, records>>

\* the findOne of subscribeEmail settles: a document, null, or an error
\* (500)
SubscribeFinds ==
    /\ \E r \in Requests, ok \in BOOLEAN :
          /\ reqs[r].pc = "finding" /\ reqs[r].kind = "subscribe"
          /\ reqs' = [reqs EXCEPT ![r] =
                IF ~ok THEN answered(reqs[r], 500)
                ELSE [reqs[r] EXCEPT
                         !.found = findOne(records, reqs[r].email),
                         !.pc = IF findOne(records, reqs[r].email) = 0
                                THEN "creating" ELSE "updating"]]
    /\ UNCHANGED <<ix, ag, pipelineVars, rt, fb, alertVars, concurrentVars, store, records>>

\* the save of the existing document settles: 200, or an error (500)
SubscribeUpdates ==
    /\ \E r \in Requests, ok \in BOOLEAN :
          /\ reqs[r].pc = "updating"
          /\ IF ok
             THEN /\ records' =
                        {IF d.id = reqs[r].found
                         THEN [d EXCEPT !.threshold = reqs[r].threshold,
                                        !.healthConditions = reqs[r].healthConditions,
                                        !.active = TRUE]
                         ELSE d : d \in records}
                  /\ reqs' = [reqs EXCEPT ![r] =
                                 answered([reqs[r] EXCEPT !.wrote = TRUE], 200)]
             ELSE /\ reqs' = [reqs EXCEPT ![r] = answered(reqs[r], 500)]
                  /\ UNCHANGED records
    /\ UNCHANGED <<ix, ag, pipelineVars, rt, fb, alertVars, concurrentVars, store>>

\* the save of the new document settles: it is in the collection, or an
\* error (500)
SubscribeCreates ==
    /\ \E r \in Requests, ok \in BOOLEAN :
          /\ reqs[r].pc = "creating"
          /\ IF ok
             THEN /\ Cardinality(records) < MaxRecords
                  /\ records' = records \cup
                        {[id |-> Cardinality(records) + 1, email |-> reqs[r].email,
                          threshold |-> reqs[r].threshold,
                          healthConditions |-> reqs[r].healthConditions,
                          active |-> TRUE]}
                  /\ reqs' = [reqs EXCEPT ![r].pc = "confirming", ![r].wrote = TRUE]
             ELSE /\ reqs' = [reqs EXCEPT ![r] = answered(reqs[r], 500)]
                  /\ UNCHANGED records
    /\ UNCHANGED <<ix, ag, pipelineVars, rt, fb, alertVars, concurrentVars, store>>

\* sendConfirmationEmail settles: 201, or its error is rethrown (500)
SubscribeConfirms ==
    /\ \E r \in Requests, sent \in BOOLEAN :
          /\ reqs[r].pc = "confirming"
          /\ reqs' = [reqs EXCEPT ![r] =
                         answered(reqs[r], IF sent THEN 201 ELSE 500)]
    /\ UNCHANGED <<ix, ag, pipelineVars, rt, fb, alertVars, concurrentVars, store, records>>

\* unsubscribeEmail up to its first await: 400 without an email
UnsubscribeArrives ==
    /\ \E r \in Requests, e \in Emails \cup {NoEmail} :
          /\ reqs[r].pc \in {"idle", "done"}
          /\ reqs' = [reqs EXCEPT ![r] =
                IF e = NoEmail
                THEN [ReqIdle EXCEPT !.pc = "done", !.kind = "unsubscribe",
                                     !.status = 400]
                ELSE [ReqIdle EXCEPT !.pc = "finding", !.kind = "unsubscribe",
                                     !.email = e]]
    /\ UNCHANGED <<ix, ag, pipelineVars, rt, fb, alertVars, concurrentVars, store, records>>

\* the findOne of unsubscribeEmail settles: a document, null (404), or an
\* error (500)
UnsubscribeFinds ==
    /\ \E r \in Requests, ok \in BOOLEAN :
          /\ reqs[r].pc = "finding" /\ reqs[r].kind = "unsubscribe"
          /\ reqs' = [reqs EXCEPT ![r] =
                IF ~ok THEN answered(reqs[r], 500)
                ELSE IF findOne(records, reqs[r].email) = 0
                THEN answered(reqs[r], 404)
                ELSE [reqs[r] EXCEPT !.found = findOne(records, reqs[r].email),
                                     !.pc = "deactivating"]]
    /\ UNCHANGED <<ix, ag, pipelineVars, rt, fb, alertVars, concurrentVars, store, records>>

\* the save of the document marked inactive settles: 200, or an error (500)
UnsubscribeSaves ==
    /\ \E r \in Requests, ok \in BOOLEAN :
          /\ reqs[r].pc = "deactivating"
          /\ IF ok
             THEN /\ records' =
                        {IF d.id = reqs[r].found THEN [d EXCEPT !.active = FALSE]
                         ELSE d : d \in records}
                  /\ reqs' = [reqs EXCEPT ![r] =
                                 answered([reqs[r] EXCEPT !.wrote = TRUE], 200)]
             ELSE /\ reqs' = [reqs EXCEPT ![r] = answered(reqs[r], 500)]
                  /\ UNCHANGED records
    /\ UNCHANGED <<ix, ag, pipelineVars, rt, fb, alertVars, concurrentVars, store>>

NextSubscribe ==
    \/ SubscribeArrives \/ SubscribeFinds \/ SubscribeUpdates \/ SubscribeCreates
    \/ SubscribeConfirms \/ UnsubscribeArrives \/ UnsubscribeFinds
    \/ UnsubscribeSaves

SpecSubscribe == InitSubscribe /\ [][NextSubscribe]_vars

(***************************************************************************)
\* the pollutants of a reading that are present with a value above zero
qualifying(reading) == {p \in DOMAIN reading : RLt(R(0), reading[p])}

\* C1: calculateAQI returns the maximum of the sub-indices of exactly the
\* pollutants present with a value strictly greater than zero (not their sum,
\* not their average), and 0 when no pollutant qualifies.
C1_MaxOfMeasured ==
    ag.doneDirect =>
        LET q == qualifying(ag.reading)
        IN  IF q = {} THEN ag.direct = R(0)
            ELSE /\ \E p \in q : ag.direct = indexFor(p, ag.reading[p])
                 /\ \A p \in q : RLe(indexFor(p, ag.reading[p]), ag.direct)

\* C1 witness: two qualifying pollutants with different sub-indices, one
\* pollutant absent, one zero and one negative; the result is the larger
\* sub-index.
C1_Witness ==
    /\ ag.doneDirect
    /\ DOMAIN ag.reading = {"pm25", "o3", "co", "so2"}
    /\ ag.reading["pm25"] = R(2)
    /\ ag.reading["o3"] = R(60)
    /\ ag.reading["co"] = R(0)
    /\ ag.reading["so2"] = Dec(-10)
    /\ ag.direct = R(67)

\* C2 (as claimed): both paths use one breakpoint definition: for every
\* pollutant and every concentration >= 0 the sub-index of the direct-reading
\* path equals the sub-index of the forecast path.
C2_SameSubIndex ==
    (ix.doneDirect /\ ix.doneForecast) => ix.direct = ix.forecast

\* C3: at the lower bound of every tabled segment the sub-index is the
\* segment's aqiLow, at its upper bound the segment's aqiHigh.
C3_SegmentEndpoints ==
    ix.doneDirect =>
        \A k \in 1..Len(Segments(ix.pollutant)) :
            LET seg == Segments(ix.pollutant)[k]
            IN  /\ ix.conc = seg[1] => ix.direct = R(seg[3])
                /\ ix.conc = seg[2] => ix.direct = R(seg[4])

\* C3 witness: pm25 at 35.4, the upper bound of its second segment, has
\* sub-index 100.
C3_Witness ==
    /\ ix.doneDirect
    /\ ix.pollutant = "pm25"
    /\ ix.conc = 354
    /\ ix.direct = R(100)

\* C4 (as claimed): above the upper bound of the last tabled segment the
\* returned index exceeds 500.
C4_Original ==
    (ix.doneDirect /\ ix.conc > lastSegment(ix.pollutant)[2]) =>
        RLt(R(500), ix.direct)

\* C4 (amended): the sub-index is an integer for every concentration >= 0;
\* above the upper bound of the last tabled segment it is the rounded value
\* of the last segment's formula, at least 500, not smaller than at the
\* concentration a tenth below, and above 500 from 2.1 units above the bound
\* on.
C4_Extrapolation ==
    ix.doneDirect =>
        LET last == lastSegment(ix.pollutant)
        IN  /\ IsInteger(ix.direct)
            /\ ix.conc > last[2] =>
                  /\ ix.direct = MathRound(RAdd(RMul(Frac(last[4] - last[3],
                                                          last[2] - last[1]),
                                                     R(ix.conc - last[1])),
                                                R(last[3])))
                  /\ RLe(R(500), ix.direct)
                  /\ RLe(indexFor(ix.pollutant, Dec(ix.conc - 1)), ix.direct)
                  /\ (ix.conc >= last[2] + 21 => RLt(R(500), ix.direct))

\* C4 witness: pm25 at 503.4 is above the last bound 500.4 and its index is
\* above 500.
C4_Witness ==
    /\ ix.doneDirect
    /\ ix.pollutant = "pm25"
    /\ ix.conc = 5034
    /\ RLt(R(500), ix.direct)

\* makePrediction was entered and has returned or thrown
Finished == pc = "done" /\ outcome # "http400"

\* the response is an array, or an object carrying a predictions array
carriesArray(resp) == resp.kind \in {"array", "predictions"}

\* C5 (as claimed): the forecast comes from the remote predictor exactly
\* when the predictor call returned an array or an object carrying a
\* predictions array, and from the fallback forecaster otherwise.
C5_Original ==
    Finished =>
        /\ producedBy = "remote" <=> carriesArray(response)
        /\ producedBy = "fallback" <=> ~carriesArray(response)

\* C5 (amended): the forecast comes from the remote predictor exactly when
\* the predictor call was made and returned an array, or an object carrying
\* a predictions array, every element of which is itself an array; in every
\* other case (no API key so no call, transport error, abort, timeout, any
\* other response shape, an array with an element that is no array) the
\* whole forecast comes from the fallback forecaster over the padded series.
C5_RemoteIffVectors ==
    Finished =>
        LET usable == /\ carriesArray(response)
                      /\ \A k \in 1..Len(response.elems) : response.elems[k].isArray
        IN  /\ producedBy = "remote" <=> usable
            /\ producedBy = "fallback" <=> ~usable
            /\ producedBy = "fallback" =>
                  result = generateFallbackPrediction(processedData, jitterSeed,
                                                      clockHour)

\* C5 witness: the predictor answered with an array whose element is a
\* number, and the forecast is the fallback's.
C5_Witness ==
    /\ Finished
    /\ response.kind = "array"
    /\ Len(response.elems) = 1
    /\ ~response.elems[1].isArray
    /\ producedBy = "fallback"

\* C6 (as claimed): the result carries a source tag that is "fallback"
\* exactly when the fallback forecaster produced the forecast and "remote"
\* exactly when the predictor's response was used.
C6_SourceTag ==
    (Finished /\ outcome = "returned") =>
        /\ resSource = "fallback" <=> producedBy = "fallback"
        /\ resSource = "remote" <=> producedBy = "remote"

\* C7: no error propagates out of makePrediction: whenever it was entered
\* and has finished, it has returned a forecast, produced by the predictor's
\* response or by the fallback forecaster.
C7_NeverThrows ==
    /\ outcome # "threw"
    /\ Finished => outcome = "returned" /\ producedBy \in {"remote", "fallback"}

\* C7 witness: an empty series, no API key, and the call has returned the
\* fallback's forecast.
C7_Witness ==
    /\ Finished
    /\ Len(input) = 0
    /\ ~hfKey
    /\ outcome = "returned"
    /\ producedBy = "fallback"
    /\ Len(result) = 24

\* a forecast point is well-formed: six pollutant values that are numbers
\* >= 0 and an aqi that is an integer >= 0 aggregating them
wellFormed(point) ==
    /\ \A p \in Pollutants :
          ~IsNaN(point.pollutants[p]) /\ RLe(R(0), point.pollutants[p])
    /\ IsInteger(point.aqi)
    /\ RLe(R(0), point.aqi)
    /\ point.aqi = calculateAQIFromPollutants(point.pollutants)

\* C8 (as claimed): when the predictor fails, every one of the 24 points
\* returned by the fallback forecaster is well-formed.
C8_FallbackWellFormed ==
    (Finished /\ producedBy = "fallback") =>
        /\ Len(result) = 24
        /\ \A k \in 1..Len(result) : wellFormed(result[k])

\* C9 (as claimed): the forecast returned has exactly 24 points on the
\* fallback path and on the remote path.
C9_AlwaysHorizon ==
    (Finished /\ outcome = "returned") => Len(result) = 24

nonDegenerate(data, i) == ~REq(columnMin(data, i), columnMax(data, i))

\* C11 (as claimed): for any series and any feature whose minimum differs
\* from its maximum, the inverse transform of the transform of any point
\* gives back the original feature value.
C11_Original ==
    rt.done =>
        \A k \in 1..Len(rt.series) : \A i \in 1..2 :
            nonDegenerate(rt.series, i) => rt.back[k][i] = rt.series[k][i]

\* C11 (amended): for a feature whose minimum differs from its maximum the
\* round trip gives back every original value that is >= 0 and gives 0 for
\* a negative one (the inverse clamps to [0, 2*max]); for a constant feature
\* the transform gives 0 and the inverse gives the minimum.
C11_RoundTrip ==
    rt.done =>
        \A k \in 1..Len(rt.series) : \A i \in 1..2 :
            LET x == rt.series[k][i]
            IN  IF nonDegenerate(rt.series, i)
                THEN rt.back[k][i] = IF RLe(R(0), x) THEN x ELSE R(0)
                ELSE /\ rt.normalized[k][i] = R(0)
                     /\ rt.back[k][i] = columnMin(rt.series, i)

\* C11 witness: a feature with values 0, 1 and 2.5 is transformed to
\* 0, 2/5 and 1 and comes back as 0, 1 and 2.5.
C11_Witness ==
    /\ rt.done
    /\ Len(rt.series) = 3
    /\ rt.series[1][1] = R(0) /\ rt.series[2][1] = R(1) /\ rt.series[3][1] = Dec(25)
    /\ rt.normalized[2][1] = Frac(2, 5)
    /\ rt.back[2][1] = R(1)
    /\ rt.back[3][1] = Dec(25)

\* the column of the series that holds pollutant p
columnOf(p) ==
    CASE p = "pm25" -> 1 [] p = "pm10" -> 2 [] p = "o3" -> 3
      [] p = "no2" -> 4 [] p = "so2" -> 5 [] p = "co" -> 6

C13_WeatherOptional ==
    (pc \in {"predictor", "done"} /\ outcome # "http400" /\ ~weatherData.present) =>
        /\ outcome # "threw"
        /\ hfKey =>
              /\ payload = normalizeData(processedData)
              /\ \A k \in 1..Len(payload) : Len(payload[k]) = 6
              /\ pc = "predictor" \/ response # NoResponse
        /\ (pc = "done" /\ hfKey) =>
              IF failingStage(response) = "none"
              THEN /\ producedBy = "remote"
                   /\ result = aqiPredictions(denormalizeData(
                          [k \in 1..Len(response.elems) |-> response.elems[k].vals],
                          processedData))
              ELSE producedBy = "fallback"

\* C13 witness: no weather data, and the predictor's 24 vectors of six
\* values became the forecast.
C13_Witness ==
    /\ Finished
    /\ ~weatherData.present
    /\ hfKey
    /\ Len(payload[1]) = 6
    /\ producedBy = "remote"
    /\ Len(response.elems) = 24
    /\ Len(response.elems[1].vals) = 6
    /\ Len(result) = 24

\* C14 (as claimed): makePrediction treats its input as immutable: after it
\* returns, the array the caller passed in (the parameter processedData
\* names that very array) has the length and the points it had at the call.
C14_InputUnchanged ==
    Finished => processedData = input

\* C18: on predictor failure the fallback forecaster is given the padded
\* series in original units, not the normalized or weather-augmented copy,
\* and the whole forecast is the fallback's; a forecast made from the
\* predictor's response has no point of the fallback.
C18_FallbackOnOriginal ==
    Finished =>
        /\ producedBy = "fallback" =>
              /\ fallbackInput = padSeries(input)
              /\ result = generateFallbackPrediction(padSeries(input), jitterSeed,
                                                     clockHour)
        /\ producedBy = "remote" =>
              /\ fallbackInput = <<>>
              /\ result = aqiPredictions(denormalizeData(
                      [k \in 1..Len(response.elems) |-> response.elems[k].vals],
                      padSeries(input)))

\* C18 witness: the series was normalized and augmented with weather
\* columns, the predictor request failed, and the fallback was given the
\* padded series of six columns in original units.
C18_Witness ==
    /\ Finished
    /\ response.kind = "throw"
    /\ Len(input) = 10
    /\ Len(payload[1]) = 9
    /\ payload[24][1] = R(1)
    /\ producedBy = "fallback"
    /\ Len(fallbackInput) = 24
    /\ fallbackInput[24] = input[10]
    /\ Len(result) = 24

\* C19 (as claimed): the weather features are appended to every point
\* before the normalization statistics are fitted, so the series sent to
\* the predictor is the min-max transform of the augmented series.
C19_WeatherBeforeFit ==
    pc = "predictor" =>
        payload = normalizeData(addWeatherFeatures(processedData, weatherData))

\* the subscriptions an alert is owed to, given the aqi a check has read:
\* active, threshold reached, never notified or notified more than the
\* buffer ago
owed(currentAQI) ==
    {e \in Emails :
        /\ subscriptions[e].exists /\ subscriptions[e].active
        /\ currentAQI >= subscriptions[e].threshold
        /\ \/ ~subscriptions[e].notified
           \/ clock - subscriptions[e].lastNotified > timeBuffer}

\* check c takes a step
stepOf(c) == checks'[c] # checks[c]

\* the step of check c in which an alert email goes out, to checks'[c].sentTo
alertSent(c) == checks[c].pc = "sending" /\ checks'[c].pc = "saving"

C17_NoAlertAfterUnsubscribe ==
    /\ [](\A e \in unsubscribed :
            subscriptions[e].exists /\ ~subscriptions[e].active)
    /\ [][\A c \in Checks :
            alertSent(c) => checks'[c].sentTo \notin unsubscribed]_vars

\* C26: no subscription is sent two alert emails less than 6 hours apart,
\* whatever checks run at the same time: when an alert email goes out, the
\* lastNotified of its subscription (the time of an earlier alert email to
\* it) is not less than 6 hours back.
C26_Throttle ==
    [][\A c \in Checks :
          alertSent(c) =>
              LET sub == subscriptions[checks'[c].sentTo]
              IN  ~(sub.notified /\ clock - sub.lastNotified < timeBuffer)]_vars

\* C20 (as claimed): the k-th point the fallback forecaster returns
\* (k = 1..24) is forecast step h = k: its trend term is trend*k and its
\* daily-pattern bucket is (currentHour + k) mod 24.
C20_StepIsIndex ==
    fb.done =>
        \A k \in 1..24 :
            /\ fb.steps[k].hour = k
            /\ fb.steps[k].hourOfDay = (fb.nowHour + k) % 24
            /\ \A i \in 1..6 :
                  fb.steps[k].trendTerm[i] = RMul(fb.steps[k].trends[i], R(k))

\* C15: concurrent invocations of makePrediction do not interfere: however
\* two invocations interleave at their awaits, the padded series, the
\* series the statistics are fitted on, the series sent, the choice of
\* forecaster and the forecast of each are those of a run of its own on its
\* own input (for the jitter and clock the fallback drew).
C15_NoInterference ==
    \A i \in Invocations :
        LET v == inv[i]
            padded == padSeries(v.input)
        IN  /\ v.pc # "idle" => heap[v.array] = padded
            /\ (v.pc \in {"predictor", "done"} /\ hfKey) =>
                  /\ v.normalized = padded
                  /\ v.payload = addWeatherFeatures(normalizeData(padded), v.weather)
            /\ v.pc = "done" =>
                  IF hfKey /\ v.response.kind = "array"
                  THEN /\ v.producedBy = "remote"
                       /\ v.result = aqiPredictions(denormalizeData(
                              [k \in 1..Len(v.response.elems) |->
                                  v.response.elems[k].vals], padded))
                  ELSE /\ v.producedBy = "fallback"
                       /\ v.fallbackInput = padded
                       /\ v.result = generateFallbackPrediction(padded, v.draw.seed,
                                                                v.draw.hour)

\* C15 witness: the first invocation, on 3 rising points, has returned the
\* predictor's forecast while the second, called with 24 declining points,
\* is waiting for its predictor.
C15_Witness ==
    /\ inv[1].pc = "done"
    /\ inv[1].producedBy = "remote"
    /\ Len(inv[1].input) = 3
    /\ inv[2].pc = "predictor"
    /\ Len(inv[2].input) = 24
    /\ inv[2].normalized # inv[1].normalized
    /\ Len(inv[1].result) = 1

(***************************************************************************)
(* The fallback forecaster's window, pattern and jitter.                   *)
(***************************************************************************)
\* the mean of feature i over the points of the window whose 0-based index
\* is congruent to b modulo 24
bucketMean(window, b, i) ==
    RDiv(hourlyTotal(window, b, i), R(hourlyCount(window)[b + 1]))

\* C21: for a series of at least 24 points the daily pattern the forecaster
\* uses for bucket b and feature i is the mean of feature i over the window
\* points with index congruent to b modulo 24, minus the mean of feature i
\* over the whole window, and it is a number.
C21_DailyPattern ==
    (fb.done /\ Len(fb.data) >= 24) =>
        LET window == dataToUse(fb.data)
        IN  \A k \in 1..24 : \A i \in 1..Len(window[1]) :
                /\ ~IsNaN(fb.steps[k].pattern[i])
                /\ REq(fb.steps[k].pattern[i],
                       RSub(bucketMean(window, fb.steps[k].hourOfDay, i),
                            averageLoop(window, i)))

RAbs(a) == IF RLt(a, R(0)) THEN RSub(R(0), a) ELSE a

\* C23: at every step and for every feature the value before clamping differs
\* from the value before the jitter by at most 5% of that value's absolute
\* value.
C23_JitterBounded ==
    fb.done =>
        \A k \in 1..24 : \A i \in 1..Len(fb.steps[k].prediction) :
            RLe(RAbs(RSub(RAdd(fb.steps[k].prediction[i], fb.steps[k].variation[i]),
                          fb.steps[k].prediction[i])),
                RMul(Frac(5, 100), RAbs(fb.steps[k].prediction[i])))

\* the series with every point older than the last recentWindow points
\* replaced by another point
changeOlder(data) ==
    [k \in 1..Len(data) |->
        IF k <= Len(data) - recentWindow
        THEN <<R(400), R(400), R(400), R(400), R(400), R(400)>>
        ELSE data[k]]

\* the sum of feature i over the points xs, taken in blocks of 12
sumOf(xs, i) ==
    LET n == Len(xs)
        blocks == (n + 11) \div 12
        block[b \in 1..blocks] ==
            LET lo == 12 * (b - 1) + 1
                hi == IF 12 * b < n THEN 12 * b ELSE n
                part[j \in (lo - 1)..hi] ==
                    IF j = lo - 1 THEN R(0) ELSE RAdd(part[j - 1], xs[j][i])
            IN  part[hi]
        upTo[b \in 0..blocks] ==
            IF b = 0 THEN R(0) ELSE RAdd(upTo[b - 1], block[b])
    IN  upTo[blocks]

\* C24: for a series of n >= 24 points the forecaster's mean is the average
\* of each feature over the most recent min(72, n) points, its trend is the
\* average of the consecutive differences over those points, and changing
\* the points older than the last 72 leaves every step of the forecast
\* unchanged.
C24_RecentWindow ==
    (fb.done /\ Len(fb.data) >= 24) =>
        LET n == Len(fb.data)
            m == IF n < recentWindow THEN n ELSE recentWindow
            recent == array(SubSeq(fb.data, n - m + 1, n))
        IN  /\ \A i \in 1..Len(recent[1]) :
                LET total == sumOf(recent, i)
                IN  \A k \in 1..24 :
                        /\ REq(fb.steps[k].averages[i], RDiv(total, R(m)))
                        /\ REq(fb.steps[k].trends[i],
                               RDiv(RSub(recent[m][i], recent[1][i]), R(m - 1)))
            /\ n > recentWindow =>
                   fallbackSteps(changeOlder(fb.data), fb.seed, fb.nowHour) = fb.steps

C24_Witness ==
    /\ fb.done
    /\ Len(fb.data) > recentWindow
    /\ fb.data[1] # fb.data[Len(fb.data)]
    /\ changeOlder(fb.data) # fb.data
    /\ ~IsNaN(fb.steps[24].averages[1])
    /\ ~REq(fb.steps[24].trends[1], R(0))

(***************************************************************************)
(* Monotonicity of the sub-index.                                          *)
(***************************************************************************)
\* C25: for every pollutant the sub-index does not decrease as the
\* concentration grows, in the reading copy and in the forecast copy, also
\* between the upper bound of one segment and the lower bound of the next:
\* the sub-index of a concentration is at least that of the concentration
\* one tenth below it.
C25_Monotone ==
    (ix.doneDirect /\ ix.doneForecast /\ ix.conc > 0) =>
        /\ RLe(indexFor(ix.pollutant, Dec(ix.conc - 1)), ix.direct)
        /\ RLe(indexForP(ix.pollutant, Dec(ix.conc - 1)), ix.forecast)

(***************************************************************************)
(* The stored aqi.                                                         *)
(***************************************************************************)
\* C30: on every path that stores a reading the stored aqi equals the
\* maximum sub-index (calculateAQI) of the pollutant values stored in the
\* same record.
C30_StoredAqiIsIndex ==
    store.done =>
        REq(store.record["aqi"],
            calculateAQI([p \in Pollutants |-> store.record[p]]))

(***************************************************************************)
(* Subscribe and unsubscribe requests.                                     *)
(***************************************************************************)
\* C27: after any sequence and any interleaving of subscribe and
\* unsubscribe requests the collection holds at most one subscription
\* document per email.
C27_OneRecordPerEmail ==
    \A e \in Emails : Cardinality({d \in records : d.email = e}) <= 1

\* C28: a subscribe request that has ended with an error response (400 or
\* 500) has written nothing to the collection.
C28_ErrorLeavesUnchanged ==
    \A r \in Requests :
        (reqs[r].pc = "done" /\ reqs[r].kind = "subscribe"
         /\ reqs[r].status \in {400, 500}) => ~reqs[r].wrote

(***************************************************************************)
(* What one alert check writes and returns.                                *)
(***************************************************************************)
\* C29: within a check the lastNotified of a subscription is written only
\* after its alert email went out in that check, with the time taken then;
\* a failed send writes nothing and the loop goes on with the remaining
\* subscriptions; the check returns the number of emails that went out, and
\* 0 when an error reaches its outer catch; it never ends any other way.
C29_SendThenStamp ==
    /\ [](\A c \in Checks :
            /\ checks[c].pc \in {"idle", "read", "sending", "saving", "done"}
            /\ checks[c].delivered \subseteq checks[c].attempted
            /\ checks[c].sentCount = Cardinality(checks[c].delivered)
            /\ checks[c].pc = "done" =>
                  /\ checks[c].returned =
                        IF checks[c].error THEN 0
                        ELSE Cardinality(checks[c].delivered)
                  /\ ~checks[c].error => checks[c].attempted = checks[c].due)
    /\ [][\A e \in Emails :
            subscriptions'[e] # subscriptions[e] /\ subscriptions[e].exists
            /\ subscriptions'[e].lastNotified # subscriptions[e].lastNotified =>
                \E c \in Checks :
                    /\ checks[c].pc = "saving"
                    /\ checks[c].sentTo = e
                    /\ e \in checks[c].delivered
                    /\ subscriptions'[e].lastNotified = checks[c].stamp]_vars
    /\ [][\A c \in Checks :
            (stepOf(c) /\ checks[c].pc = "sending" /\ ~alertSent(c)) =>
                /\ subscriptions' = subscriptions
                /\ checks'[c].delivered = checks[c].delivered
                /\ checks'[c].pc =
                      IF checks[c].due \ checks'[c].attempted = {} THEN "done"
                      ELSE "sending"]_vars

\* C29 witness: a check has returned 1 after the send to the first of two
\* due subscriptions failed and the one to the second went out: the first
\* is still not notified, the second is.
C29_Witness ==
    /\ checks[1].pc = "done"
    /\ ~checks[1].error
    /\ checks[1].returned = 1
    /\ checks[1].due = Emails
    /\ checks[1].delivered = {"b@example.com"}
    /\ ~subscriptions["a@example.com"].notified
    /\ subscriptions["b@example.com"].notified
    /\ checks[2].pc = "idle"

====
